---- MODULE Spec2Model ----
(***************************************************************************)
(* Job lifecycle engine of the reminder system: the scheduler that         *)
(* generates jobs from rules, the executor that claims and dispatches      *)
(* them, the test-send and direct job-creation request handlers, the plan  *)
(* catalog and the per-channel usage counters.                             *)
(*                                                                         *)
(* Time is counted in minutes since an epoch; a date is a day number.      *)
(* An absent (NULL / undefined) text value is the empty string, an absent  *)
(* row reference is 0.                                                     *)
(***************************************************************************)
EXTENDS Integers, Sequences, FiniteSets, TLC

VARIABLES now, tz, providerEnv, tenants, customers, rules, jobs, locks,
          usage, ex, sc, ts, dc, hist

vars == <<now, tz, providerEnv, tenants, customers, rules, jobs, locks,
          usage, ex, sc, ts, dc, hist>>

\* the data the core only reads
dataVars == <<tz, providerEnv, tenants, customers, rules>>

(***************************************************************************)
(* Bounds of the model                                                     *)
(***************************************************************************)
\* rows the jobs table may hold
MaxJobs == 3
\* minutes the clock may advance past StartNow
Horizon == 3
\* the same, where a job is followed through all its retries
RetryHorizon == 15
\* rows one claim may take: the executor's LIMIT, scaled down so that it binds
ClaimLimit == 2
\* calendar months the clock may move past the first
MonthsAhead == 1

(***************************************************************************)
(* Program constants                                                       *)
(***************************************************************************)
MAX_RETRIES == 3

MinutesPerDay == 24 * 60

Channels == {"email", "sms", "whatsapp"}

Executors == {"e1", "e2"}
Schedulers == {"s1", "s2"}
Callers == {"d1", "d2"}

Min(a, b) == IF a <= b THEN a ELSE b

RECURSIVE Pow2(_)
Pow2(n) == IF n = 0 THEN 1 ELSE 2 * Pow2(n - 1)

(***************************************************************************)
(* Plan catalog                                                            *)
(***************************************************************************)
CHANNEL_PLANS ==
  [ email_free       |-> [channel |-> "email",    quota |-> 500],
    email_starter    |-> [channel |-> "email",    quota |-> 5000],
    email_pro        |-> [channel |-> "email",    quota |-> 25000],
    sms_starter      |-> [channel |-> "sms",      quota |-> 1000],
    sms_pro          |-> [channel |-> "sms",      quota |-> 5000],
    whatsapp_starter |-> [channel |-> "whatsapp", quota |-> 1000],
    whatsapp_pro     |-> [channel |-> "whatsapp", quota |-> 5000] ]

COMBO_PLANS ==
  [ combo_sms_whatsapp |-> [channels |-> {"sms", "whatsapp"},
                            quotas   |-> [sms |-> 1000, whatsapp |-> 1000]],
    combo_all          |-> [channels |-> {"email", "sms", "whatsapp"},
                            quotas   |-> [email |-> 5000, sms |-> 1000,
                                          whatsapp |-> 1000]] ]

\* null: the lookup found nothing
NoPlan == [unknown |-> TRUE]

getChannelPlan(planId) ==
  IF planId \in DOMAIN CHANNEL_PLANS THEN CHANNEL_PLANS[planId]
  ELSE IF planId \in DOMAIN COMBO_PLANS THEN COMBO_PLANS[planId]
  ELSE NoPlan

\* channels one plan adds to the enabled set
PlanChannels(plan) ==
  (IF "channel" \in DOMAIN plan THEN {plan.channel} ELSE {})
    \cup (IF "channels" \in DOMAIN plan THEN plan.channels ELSE {})

getEnabledChannels(activePlans) ==
  UNION { PlanChannels(getChannelPlan(activePlans[i])) : i \in DOMAIN activePlans }

\* quota one plan adds for a channel
PlanQuota(plan, channel) ==
  (IF "channel" \in DOMAIN plan /\ plan.channel = channel THEN plan.quota ELSE 0)
    + (IF "quotas" \in DOMAIN plan /\ channel \in DOMAIN plan.quotas
         THEN plan.quotas[channel] ELSE 0)

RECURSIVE SumQuota(_, _)
SumQuota(activePlans, channel) ==
  IF activePlans = <<>> THEN 0
  ELSE PlanQuota(getChannelPlan(Head(activePlans)), channel)
         + SumQuota(Tail(activePlans), channel)

\* p.startsWith('email'), over the plan identifiers the model uses
StartsWithEmail(p) ==
  p \in {"email_free", "email_starter", "email_pro", "email_legacy"}

getChannelQuota(activePlans, channel) ==
  IF channel = "email"
       /\ ~ \E i \in DOMAIN activePlans : StartsWithEmail(activePlans[i])
    THEN 500
    ELSE SumQuota(activePlans, channel)

(***************************************************************************)
(* Job store                                                               *)
(***************************************************************************)
NullTime == 0 - 1

JobIds == 1 .. Len(jobs)

\* scheduled_at is a TIMESTAMPTZ: its minute is scheduled_at, and scheduled_us
\* stands for the seconds and microseconds within the minute, 0 for an instant
\* the caller computed as a whole minute
NewJobRow(tenant_id, customer_id, rule_id, channel, recipient, scheduled_at, status) ==
  [ tenant_id |-> tenant_id, customer_id |-> customer_id, rule_id |-> rule_id,
    channel |-> channel, recipient |-> recipient, scheduled_at |-> scheduled_at,
    scheduled_us |-> 0, status |-> status, attempts |-> 0, retry_count |-> 0,
    last_error |-> "", provider_msg_id |-> "" ]

\* history kept beside each row: failed and started Executor dispatches, the
\* lead-day offset a Scheduler-made row stands for, what made the row
\* permanent_failed ("retries", "channel"), and for a row of the direct path
\* whether its increment took the counter above the quota and, if so, whether
\* its call ran alone ("alone") or overlapped another ("raced")
NewHist(lead) ==
  [fails |-> 0, dispatches |-> 0, lead |-> lead, pfBy |-> "none", over |-> "no"]

markJobSent(js, job_id, provider_msg_id) ==
  [js EXCEPT ![job_id].status = "sent",
             ![job_id].provider_msg_id = provider_msg_id]

\* variant: the row goes back to pending as a retry
markJobFailed_AsRetry(js, job_id, error) ==
  [js EXCEPT ![job_id].status = "pending",
             ![job_id].retry_count = @ + 1,
             ![job_id].attempts = @ + 1,
             ![job_id].last_error = error]

\* variant: the final failure is counted as one more retry
markJobFailed_CountsRetry(js, job_id, error) ==
  [js EXCEPT ![job_id].status = "permanent_failed",
             ![job_id].retry_count = @ + 1,
             ![job_id].attempts = @ + 1,
             ![job_id].last_error = error]

markJobFailed(js, job_id, error) ==
  [js EXCEPT ![job_id].status = "permanent_failed",
             ![job_id].attempts = @ + 1,
             ![job_id].last_error = error]

\* variant: the retry is not counted
rescheduleJob_KeepsCount(js, job_id, delayMinutes, error, t) ==
  [js EXCEPT ![job_id].scheduled_at = t + delayMinutes,
             ![job_id].scheduled_us = job_id,
             ![job_id].attempts = @ + 1,
             ![job_id].status = "pending",
             ![job_id].last_error = error]

\* NOW() + delay: the minute is t + delayMinutes; the microseconds are those of
\* the statement's NOW(), which differ from one statement to another and are
\* stood for by the id of the row the statement updates
rescheduleJob(js, job_id, delayMinutes, error, t) ==
  [js EXCEPT ![job_id].scheduled_at = t + delayMinutes,
             ![job_id].scheduled_us = job_id,
             ![job_id].retry_count = @ + 1,
             ![job_id].attempts = @ + 1,
             ![job_id].status = "pending",
             ![job_id].last_error = error]

\* scheduled_at=$5 with the whole-minute instant the Scheduler passes
jobExists(js, tenant_id, customer_id, rule_id, channel, scheduled_at) ==
  \E j \in DOMAIN js :
    /\ js[j].tenant_id = tenant_id
    /\ js[j].customer_id = customer_id
    /\ js[j].rule_id = rule_id
    /\ js[j].channel = channel
    /\ js[j].scheduled_at = scheduled_at
    /\ js[j].scheduled_us = 0

\* variant: the index is not there
UniqueViolation_Off(js, row) == FALSE

\* jobs_unique_idx: would inserting row violate the partial unique index
UniqueViolation(js, row) ==
  /\ row.customer_id # 0
  /\ row.rule_id # 0
  /\ jobExists(js, row.tenant_id, row.customer_id, row.rule_id, row.channel,
               row.scheduled_at)

(***************************************************************************)
(* Usage counters                                                          *)
(***************************************************************************)
\* calendar month of an instant (months of 30 days)
currentMonth(t) == t \div (30 * MinutesPerDay)

\* variant: ON CONFLICT DO NOTHING
incrementChannelUsage_NoUpdate(u, tenant_id, channel, quota, t) ==
  LET key == <<tenant_id, channel, currentMonth(t)>> IN
  IF key \in DOMAIN u
    THEN u
    ELSE [k \in DOMAIN u \cup {key} |->
            IF k = key THEN [used |-> 1, quota |-> quota] ELSE u[k]]

\* variant: the count stops at the quota
incrementChannelUsage_Capped(u, tenant_id, channel, quota, t) ==
  LET key == <<tenant_id, channel, currentMonth(t)>> IN
  IF key \in DOMAIN u
    THEN [u EXCEPT ![key] = [used |-> Min(@.used + 1, quota), quota |-> quota]]
    ELSE [k \in DOMAIN u \cup {key} |->
            IF k = key THEN [used |-> Min(1, quota), quota |-> quota] ELSE u[k]]

\* variant: a month's first row starts from the counts of the earlier months
incrementChannelUsage_CarriesOver(u, tenant_id, channel, quota, t) ==
  LET key   == <<tenant_id, channel, currentMonth(t)>>
      older == {k \in DOMAIN u : k[1] = tenant_id /\ k[2] = channel /\ k[3] < key[3]}
  IN
  IF key \in DOMAIN u
    THEN [u EXCEPT ![key] = [used |-> @.used + 1, quota |-> quota]]
    ELSE [k \in DOMAIN u \cup {key} |->
            IF k = key
              THEN [used |-> 1 + Cardinality(older), quota |-> quota]
              ELSE u[k]]

\* variant: the conflicting row is overwritten with a count of one
incrementChannelUsage_Reset(u, tenant_id, channel, quota, t) ==
  LET key == <<tenant_id, channel, currentMonth(t)>> IN
  [k \in DOMAIN u \cup {key} |->
     IF k = key THEN [used |-> 1, quota |-> quota] ELSE u[k]]

incrementChannelUsage(u, tenant_id, channel, quota, t) ==
  LET key == <<tenant_id, channel, currentMonth(t)>> IN
  IF key \in DOMAIN u
    THEN [u EXCEPT ![key] = [used |-> @.used + 1, quota |-> quota]]
    ELSE [k \in DOMAIN u \cup {key} |->
            IF k = key THEN [used |-> 1, quota |-> quota] ELSE u[k]]

\* rows of the tenant for the current month
getChannelUsage(u, tenant_id, t) ==
  {k \in DOMAIN u : k[1] = tenant_id /\ k[3] = currentMonth(t)}

(***************************************************************************)
(* Notification dispatcher                                                 *)
(***************************************************************************)
\* what sendNotification decides before it calls the provider:
\* "call" when the provider is called, otherwise the error it throws
sendNotification(job, env) ==
  IF job.channel = "email" THEN
       IF job.email = "" THEN "No email address for job"
       ELSE IF "email" \notin env THEN "SendGrid not configured"
       ELSE "call"
  ELSE IF job.channel = "sms" THEN
       IF job.phone = "" THEN "No phone number for job"
       ELSE IF "sms" \notin env THEN "MSG91 not configured"
       ELSE "call"
  ELSE IF job.channel = "whatsapp" THEN
       IF job.phone = "" THEN "No phone number for WhatsApp job"
       ELSE IF "whatsapp" \notin env THEN "Gupshup not configured"
       ELSE "call"
  ELSE "Unknown channel"

\* what a provider call can answer
ProviderIds == {"pm1"}
ProviderErrors == {"provider error"}


(***************************************************************************)
(* Initial data                                                            *)
(***************************************************************************)
\* the clock at start: one minute before midnight UTC of day 2
StartNow == 2 * MinutesPerDay - 1

\* minutes east of UTC of the server's local time zone
TZOffsets == {0, 330}

PlanChoices == {<<"email_starter">>, <<"combo_all">>}

\* the channels whose provider the process environment configures
EnvChoices == {{"email", "sms", "whatsapp"}, {"email"}}

FullCustomer ==
  [tenant_id |-> 1, email |-> "a@x.io", phone |-> "5550001", expiry_date |-> 3]
EmailOnlyCustomer ==
  [tenant_id |-> 1, email |-> "b@x.io", phone |-> "", expiry_date |-> 3]

\* the customers and rules tables: one customer reminded by sms two days
\* and one day ahead, or two customers and two rules, one reminding by sms
\* and whatsapp and one by email, one day ahead
DataChoices ==
  { [customers |-> [c \in {1} |-> FullCustomer],
     rules     |-> [r \in {1} |-> [tenant_id |-> 1, lead_days |-> <<2, 1>>,
                                   channels |-> <<"sms">>, is_active |-> TRUE]]],
    [customers |-> [c \in {1, 2} |-> IF c = 1 THEN FullCustomer
                                              ELSE EmailOnlyCustomer],
     rules     |-> [r \in {1, 2} |->
                     [tenant_id |-> 1, lead_days |-> <<1>>,
                      channels |-> IF r = 1 THEN <<"sms", "whatsapp">>
                                            ELSE <<"email">>,
                      is_active |-> TRUE]]] }

(***************************************************************************)
(* Scheduler: runScheduler                                                 *)
(***************************************************************************)
\* new Date(expiry_date) is local midnight of the date; setDate moves it by
\* whole days in local time; setUTCHours(0,0,0,0) then cuts it to midnight UTC
\* of the UTC date that instant falls on
ScheduledAt(expiry_date, days, offset) ==
  (((expiry_date - days) * MinutesPerDay - offset) \div MinutesPerDay)
     * MinutesPerDay

hasContact(channel, customer) ==
  \/ channel = "email" /\ customer.email # ""
  \/ channel = "sms" /\ customer.phone # ""

getActiveRules(rs) == {r \in DOMAIN rs : rs[r].is_active}

\* a finite set of integers as an ascending sequence
RECURSIVE Ascending(_)
Ascending(S) ==
  IF S = {} THEN <<>>
  ELSE LET m == CHOOSE x \in S : \A y \in S : x <= y
       IN <<m>> \o Ascending(S \ {m})

\* SELECT * FROM customers WHERE tenant_id=$1 AND expiry_date IS NOT NULL
LoadCustomers(cs, tenant_id) ==
  Ascending({c \in DOMAIN cs :
               cs[c].tenant_id = tenant_id /\ cs[c].expiry_date # NullTime})

\* the loop nest over customers, lead days and channels, as the list of its
\* iterations in order
WorkItems(rule_id, rule, cs, offset) ==
  LET custs == LoadCustomers(cs, rule.tenant_id)
      nd    == Len(rule.lead_days)
      nc    == Len(rule.channels)
  IN [k \in 1 .. (Len(custs) * nd * nc) |->
        LET c    == custs[((k - 1) \div (nd * nc)) + 1]
            days == rule.lead_days[(((k - 1) \div nc) % nd) + 1]
            ch   == rule.channels[((k - 1) % nc) + 1]
        IN [ tenant_id |-> rule.tenant_id, rule_id |-> rule_id,
             customer_id |-> c, email |-> cs[c].email, phone |-> cs[c].phone,
             days |-> days, channel |-> ch,
             scheduled_at |-> ScheduledAt(cs[c].expiry_date, days, offset) ]]

\* variant: the INSERT writes status 'queued'
createJob_Queued(job) ==
  NewJobRow(job.tenant_id, job.customer_id, job.rule_id, job.channel, "",
            job.scheduled_at, "queued")

\* variant: the INSERT leaves rule_id out
createJob_NoRule(job) ==
  NewJobRow(job.tenant_id, job.customer_id, 0, job.channel, "",
            job.scheduled_at, "pending")

\* createJob: the row the INSERT adds (status, attempts, retry_count default)
createJob(job) ==
  NewJobRow(job.tenant_id, job.customer_id, job.rule_id, job.channel, "",
            job.scheduled_at, "pending")

\* a scheduler not running; prior: a run of it has completed before;
\* inserted: rows the current run has inserted
SchedIdle(prior) ==
  [pc |-> "idle", queue |-> <<>>, work |-> <<>>, prior |-> prior, inserted |-> 0]

\* runScheduler is called: getActiveRules
SchedStart(s) ==
  /\ sc[s].pc = "idle"
  /\ sc' = [sc EXCEPT ![s].pc = "rules",
                      ![s].queue = Ascending(getActiveRules(rules)),
                      ![s].inserted = 0]
  /\ UNCHANGED <<now, dataVars, jobs, locks, usage, ex, ts, dc, hist>>

\* next rule of the outer loop: load the tenant's customers
SchedLoadCustomers(s) ==
  /\ sc[s].pc = "rules"
  /\ sc[s].queue # <<>>
  /\ LET r    == Head(sc[s].queue)
         work == WorkItems(r, rules[r], customers, tz)
     IN sc' = [sc EXCEPT ![s].queue = Tail(@),
                         ![s].work = work,
                         ![s].pc = IF work = <<>> THEN "rules" ELSE "work"]
  /\ UNCHANGED <<now, dataVars, jobs, locks, usage, ex, ts, dc, hist>>

\* the outer loop is over: the run returns
SchedEnd(s) ==
  /\ sc[s].pc = "rules"
  /\ sc[s].queue = <<>>
  /\ sc' = [sc EXCEPT ![s] = SchedIdle(TRUE)]
  /\ UNCHANGED <<now, dataVars, jobs, locks, usage, ex, ts, dc, hist>>

SchedPop(s) ==
  [sc EXCEPT ![s].work = Tail(@),
             ![s].pc = IF Tail(sc[s].work) = <<>> THEN "rules" ELSE "work"]

\* an iteration whose customer lacks the contact of the channel: continue
SchedSkip(s) ==
  /\ sc[s].pc = "work"
  /\ ~ hasContact(Head(sc[s].work).channel, Head(sc[s].work))
  /\ sc' = SchedPop(s)
  /\ UNCHANGED <<now, dataVars, jobs, locks, usage, ex, ts, dc, hist>>

\* await jobExists(...)
SchedExists(s) ==
  /\ sc[s].pc = "work"
  /\ LET it == Head(sc[s].work) IN
       /\ hasContact(it.channel, it)
       /\ IF jobExists(jobs, it.tenant_id, it.customer_id, it.rule_id,
                       it.channel, it.scheduled_at)
            THEN sc' = SchedPop(s)
            ELSE sc' = [sc EXCEPT ![s].pc = "create"]
  /\ UNCHANGED <<now, dataVars, jobs, locks, usage, ex, ts, dc, hist>>

\* await createJob(...): the INSERT; a unique-index violation rejects it,
\* and the error leaves runScheduler, which catches nothing
SchedCreate(s) ==
  /\ sc[s].pc = "create"
  /\ LET it  == Head(sc[s].work)
         row == createJob(it)
     IN IF UniqueViolation(jobs, row)
          THEN /\ sc' = [sc EXCEPT ![s] = SchedIdle(FALSE)]
               /\ UNCHANGED <<jobs, hist>>
          ELSE /\ Len(jobs) < MaxJobs
               /\ jobs' = Append(jobs, row)
               /\ hist' = Append(hist, NewHist(it.days))
               /\ sc' = [SchedPop(s) EXCEPT ![s].inserted = @ + 1]
  /\ UNCHANGED <<now, dataVars, locks, usage, ex, ts, dc>>

\* the customers query of a rule throws: nothing catches it, runScheduler
\* ends with the rules after it unvisited
SchedLoadFails(s) ==
  /\ sc[s].pc = "rules"
  /\ sc[s].queue # <<>>
  /\ sc' = [sc EXCEPT ![s] = SchedIdle(FALSE)]
  /\ UNCHANGED <<now, dataVars, jobs, locks, usage, ex, ts, dc, hist>>

Scheduler(s) ==
  \/ SchedStart(s)
  \/ SchedLoadCustomers(s)
  \/ SchedEnd(s)
  \/ SchedSkip(s)
  \/ SchedExists(s)
  \/ SchedCreate(s)

(***************************************************************************)
(* Executor: runJobExecutor                                                *)
(***************************************************************************)
\* rows some open claim transaction has locked
Locked == UNION {locks[e] : e \in Executors}

\* variant: the subquery also takes rows that failed for good
DuePending_AlsoFailed(js, t) ==
  {j \in DOMAIN js : /\ js[j].status \in {"pending", "permanent_failed"}
                     /\ js[j].scheduled_at # NullTime
                     /\ js[j].scheduled_at <= t}

\* variant: the subquery leaves scheduled_at <= NOW() out
DuePending_IgnoresTime(js, t) ==
  {j \in DOMAIN js : js[j].status = "pending"}

\* variant: a row scheduled exactly at NOW() is not yet due
DuePending_Strict(js, t) ==
  {j \in DOMAIN js : /\ js[j].status = "pending"
                     /\ js[j].scheduled_at # NullTime
                     /\ js[j].scheduled_at < t}

\* WHERE status = 'pending' AND scheduled_at <= NOW()
DuePending(js, t) ==
  {j \in DOMAIN js : /\ js[j].status = "pending"
                     /\ js[j].scheduled_at # NullTime
                     /\ js[j].scheduled_at <= t}

\* variant: the subquery takes no row locks into account
ClaimCandidates_IgnoresLocks(js, t, locked) == DuePending(js, t)

\* FOR UPDATE SKIP LOCKED: the rows a claim may take
ClaimCandidates(js, t, locked) == DuePending(js, t) \ locked

\* ORDER BY scheduled_at LIMIT n: the first n candidates, ties in any order
ClaimChoices(js, cands, limit) ==
  {S \in SUBSET cands :
     /\ Cardinality(S) = Min(limit, Cardinality(cands))
     /\ \A a \in S, b \in cands \ S : js[a].scheduled_at <= js[b].scheduled_at}

\* a row of the claimed set joined with its customer and tenant
JoinRow(j) ==
  LET job == jobs[j] IN
  [ id |-> j, tenant_id |-> job.tenant_id, channel |-> job.channel,
    recipient |-> job.recipient, retry_count |-> job.retry_count,
    scheduled_at |-> job.scheduled_at,
    email |-> IF job.customer_id \in DOMAIN customers
                THEN customers[job.customer_id].email ELSE "",
    phone |-> IF job.customer_id \in DOMAIN customers
                THEN customers[job.customer_id].phone ELSE "",
    active_plans |-> IF job.tenant_id \in DOMAIN tenants
                       THEN tenants[job.tenant_id] ELSE <<>> ]

\* the orders in which the join may return the rows of S (it has no ORDER BY)
RowOrders(S) ==
  {o \in [1 .. Cardinality(S) -> S] : \A a, b \in DOMAIN o : a # b => o[a] # o[b]}

enrichedJob(job) ==
  [job EXCEPT !.email = IF job.email # "" THEN job.email
                        ELSE IF job.channel = "email" THEN job.recipient ELSE "",
              !.phone = IF job.phone # "" THEN job.phone
                        ELSE IF job.channel \in {"sms", "whatsapp"}
                               THEN job.recipient ELSE ""]

\* variant: every failure is retried
ShouldRetry_Always(retries) == TRUE

\* variant: no failure is retried
ShouldRetry_Never(retries) == FALSE

\* variant: retries <= MAX_RETRIES
ShouldRetry_Inclusive(retries) == retries <= MAX_RETRIES

\* if (retries < MAX_RETRIES)
ShouldRetry(retries) == retries < MAX_RETRIES

\* variant: Math.pow(2, retries)
delayMinutes_FromRetries(retries) == Pow2(retries)

\* Math.pow(2, nextRetry) with nextRetry = retries + 1
delayMinutes(retries) == Pow2(retries + 1)

\* an executor not running; seen, peer, claimed, dispatched are history of the
\* current pass: the pending rows that were due at its claim, the rows other
\* open claim transactions held then, the rows it claimed, the rows it handed
\* to sendNotification
ExecIdle ==
  [pc |-> "idle", batch |-> <<>>, providerMsgId |-> "", err |-> "",
   seen |-> {}, peer |-> {}, claimed |-> {}, dispatched |-> {},
   aborted |-> {}]

\* rows an executor holds: locked by its claim, or claimed and not yet processed
Held(e) == locks[e] \cup {ex[e].batch[i].id : i \in DOMAIN ex[e].batch}

\* BEGIN; UPDATE jobs SET status = 'queued' WHERE id IN (...) RETURNING id.
\* With no row claimed the pass commits and is about to return.
ExecClaim(e) ==
  /\ ex[e].pc = "idle"
  /\ \E S \in ClaimChoices(jobs, ClaimCandidates(jobs, now, Locked), ClaimLimit) :
       /\ locks' = [locks EXCEPT ![e] = S]
       /\ ex' = [ex EXCEPT
                   ![e].pc = IF S = {} THEN "loop" ELSE "claimed",
                   ![e].seen = {j \in DOMAIN jobs : /\ jobs[j].status = "pending"
                                                    /\ jobs[j].scheduled_at <= now},
                   ![e].peer = Locked,
                   ![e].claimed = S]
  /\ UNCHANGED <<now, dataVars, jobs, usage, sc, ts, dc, hist>>

\* the join SELECT over the claimed ids, then COMMIT: the rows become queued
\* for everyone and their locks are released
ExecLoad(e) ==
  /\ ex[e].pc = "claimed"
  /\ \E o \in RowOrders(locks[e]) :
       /\ jobs' = [j \in DOMAIN jobs |->
                     IF j \in locks[e] THEN [jobs[j] EXCEPT !.status = "queued"]
                                       ELSE jobs[j]]
       /\ ex' = [ex EXCEPT ![e].pc = "loop",
                           ![e].batch = [i \in DOMAIN o |-> JoinRow(o[i])],
                           ![e].aborted = {}]
  /\ locks' = [locks EXCEPT ![e] = {}]
  /\ UNCHANGED <<now, dataVars, usage, sc, ts, dc, hist>>

\* the for loop is over, or nothing was claimed: the pass returns
ExecFinish(e) ==
  /\ ex[e].pc = "loop"
  /\ ex[e].batch = <<>>
  /\ ex' = [ex EXCEPT ![e] = ExecIdle]
  /\ UNCHANGED <<now, dataVars, jobs, locks, usage, sc, ts, dc, hist>>

\* the tenant's plans no longer enable the channel: markJobFailed, continue
ExecNotEnabled(e) ==
  /\ ex[e].pc = "loop"
  /\ ex[e].batch # <<>>
  /\ LET job == Head(ex[e].batch) IN
       /\ job.channel \notin getEnabledChannels(job.active_plans)
       /\ job.id \notin Locked
       /\ jobs' = markJobFailed(jobs, job.id, "Channel not enabled on tenant plan")
       /\ hist' = [hist EXCEPT ![job.id].pfBy = "channel"]
  /\ ex' = [ex EXCEPT ![e].batch = Tail(@)]
  /\ UNCHANGED <<now, dataVars, locks, usage, sc, ts, dc>>

\* const providerMsgId = await sendNotification(enrichedJob): the provider is
\* called, or sendNotification throws before any call and the catch block runs
ExecDispatch(e) ==
  /\ ex[e].pc = "loop"
  /\ ex[e].batch # <<>>
  /\ LET job == Head(ex[e].batch)
         r   == sendNotification(enrichedJob(job), providerEnv)
     IN
       /\ job.channel \in getEnabledChannels(job.active_plans)
       /\ IF r = "call"
            THEN /\ hist' = [hist EXCEPT ![job.id].dispatches = @ + 1]
                 /\ ex' = [ex EXCEPT ![e].pc = "sending",
                                     ![e].dispatched = @ \cup {job.id}]
            ELSE /\ hist' = [hist EXCEPT ![job.id].dispatches = @ + 1,
                                         ![job.id].fails = @ + 1]
                 /\ ex' = [ex EXCEPT ![e].pc = "failed", ![e].err = r,
                                     ![e].dispatched = @ \cup {job.id}]
  /\ UNCHANGED <<now, dataVars, jobs, locks, usage, sc, ts, dc>>

\* the provider answers with a message id
ExecSendOk(e) ==
  /\ ex[e].pc = "sending"
  /\ \E pm \in ProviderIds :
       ex' = [ex EXCEPT ![e].pc = "marksent", ![e].providerMsgId = pm]
  /\ UNCHANGED <<now, dataVars, jobs, locks, usage, sc, ts, dc, hist>>

\* the provider call fails
ExecSendFail(e) ==
  /\ ex[e].pc = "sending"
  /\ \E er \in ProviderErrors :
       ex' = [ex EXCEPT ![e].pc = "failed", ![e].err = er]
  /\ hist' = [hist EXCEPT ![Head(ex[e].batch).id].fails = @ + 1]
  /\ UNCHANGED <<now, dataVars, jobs, locks, usage, sc, ts, dc>>

\* await markJobSent(job.id, providerMsgId)
ExecMarkSent(e) ==
  /\ ex[e].pc = "marksent"
  /\ Head(ex[e].batch).id \notin Locked
  /\ jobs' = markJobSent(jobs, Head(ex[e].batch).id, ex[e].providerMsgId)
  /\ ex' = [ex EXCEPT ![e].pc = "incr"]
  /\ UNCHANGED <<now, dataVars, locks, usage, sc, ts, dc, hist>>

\* await incrementChannelUsage(job.tenant_id, job.channel, quota)
ExecIncrement(e) ==
  /\ ex[e].pc = "incr"
  /\ LET job == Head(ex[e].batch) IN
       usage' = incrementChannelUsage(usage, job.tenant_id, job.channel,
                  getChannelQuota(job.active_plans, job.channel), now)
  /\ ex' = [ex EXCEPT ![e].pc = "loop", ![e].batch = Tail(@),
                      ![e].providerMsgId = ""]
  /\ UNCHANGED <<now, dataVars, jobs, locks, sc, ts, dc, hist>>

\* the catch block: while retries < MAX_RETRIES await rescheduleJob(job.id,
\* delayMinutes, err.message), otherwise await markJobFailed(job.id, err.message)
ExecCatch(e) ==
  /\ ex[e].pc = "failed"
  /\ LET job == Head(ex[e].batch) IN
       /\ job.id \notin Locked
       /\ IF ShouldRetry(job.retry_count)
            THEN /\ jobs' = rescheduleJob(jobs, job.id,
                                          delayMinutes(job.retry_count),
                                          ex[e].err, now)
                 /\ UNCHANGED hist
            ELSE /\ jobs' = markJobFailed(jobs, job.id, ex[e].err)
                 /\ hist' = [hist EXCEPT ![job.id].pfBy = "retries"]
  /\ ex' = [ex EXCEPT ![e].pc = "loop", ![e].batch = Tail(@), ![e].err = ""]
  /\ UNCHANGED <<now, dataVars, locks, usage, sc, ts, dc>>

\* variant: the UPDATE of the failed claim stays
Rollback_KeepsUpdate(js, claimedIds) ==
  [j \in DOMAIN js |->
     IF j \in claimedIds THEN [js[j] EXCEPT !.status = "queued"] ELSE js[j]]

\* ROLLBACK: the uncommitted UPDATE of the claim is undone, the rows are as
\* they were
Rollback(js, claimedIds) == js

\* the join SELECT or the COMMIT of the claim transaction throws: ROLLBACK,
\* release, return.  aborted: the rows the failed claim had selected
ExecRollback(e) ==
  /\ ex[e].pc = "claimed"
  /\ jobs' = Rollback(jobs, locks[e])
  /\ locks' = [locks EXCEPT ![e] = {}]
  /\ ex' = [ex EXCEPT ![e] = [ExecIdle EXCEPT !.aborted = locks[e]]]
  /\ UNCHANGED <<now, dataVars, usage, sc, ts, dc, hist>>

\* what a failed write to the data store throws
StoreErrors == {"db error"}

\* markJobSent or incrementChannelUsage throws inside the try block: the
\* catch block runs for the job
ExecRecordFails(e) ==
  /\ ex[e].pc \in {"marksent", "incr"}
  /\ \E er \in StoreErrors :
       ex' = [ex EXCEPT ![e].pc = "failed", ![e].err = er,
                        ![e].providerMsgId = ""]
  /\ UNCHANGED <<now, dataVars, jobs, locks, usage, sc, ts, dc, hist>>

\* markJobFailed of the not-enabled branch, or rescheduleJob / markJobFailed
\* of the catch block, throws: nothing catches it, runJobExecutor ends with
\* the rest of the batch unprocessed
ExecWriteFails(e) ==
  /\ \/ ex[e].pc = "failed"
     \/ /\ ex[e].pc = "loop"
        /\ ex[e].batch # <<>>
        /\ Head(ex[e].batch).channel
             \notin getEnabledChannels(Head(ex[e].batch).active_plans)
  /\ ex' = [ex EXCEPT ![e] = ExecIdle]
  /\ UNCHANGED <<now, dataVars, jobs, locks, usage, sc, ts, dc, hist>>

Executor(e) ==
  \/ ExecClaim(e)
  \/ ExecLoad(e)
  \/ ExecFinish(e)
  \/ ExecNotEnabled(e)
  \/ ExecDispatch(e)
  \/ ExecSendOk(e)
  \/ ExecSendFail(e)
  \/ ExecMarkSent(e)
  \/ ExecIncrement(e)
  \/ ExecCatch(e)

(***************************************************************************)
(* POST /api/test-send                                                     *)
(***************************************************************************)
TestIdle == [pc |-> "idle", job_id |-> 0, channel |-> "", customer |-> 0,
             providerId |-> ""]

\* req.body.channel is not validated: "push" stands for a channel no provider
\* serves
TestChannels == {"email", "sms", "push"}

\* the customer is found; INSERT a pending job scheduled at NOW()
TestSendInsert ==
  /\ ts.pc = "idle"
  /\ Len(jobs) < MaxJobs
  /\ \E c \in DOMAIN customers, channel \in TestChannels :
       /\ jobs' = Append(jobs, NewJobRow(customers[c].tenant_id, c, 0, channel,
                                         "", now, "pending"))
       /\ hist' = Append(hist, NewHist(0))
       /\ ts' = [TestIdle EXCEPT !.pc = "inserted", !.job_id = Len(jobs) + 1,
                                 !.channel = channel, !.customer = c]
  /\ UNCHANGED <<now, dataVars, locks, usage, ex, sc, dc>>

fakeJob == [channel |-> ts.channel, email |-> customers[ts.customer].email,
            phone |-> customers[ts.customer].phone]

\* const providerId = await sendNotification(fakeJob): the provider is called,
\* or sendNotification throws, the handler answers 500 and the job stays
TestSendDispatch ==
  /\ ts.pc = "inserted"
  /\ IF sendNotification(fakeJob, providerEnv) = "call"
       THEN ts' = [ts EXCEPT !.pc = "sending"]
       ELSE ts' = TestIdle
  /\ UNCHANGED <<now, dataVars, jobs, locks, usage, ex, sc, dc, hist>>

\* the provider answers with a message id
TestSendOk ==
  /\ ts.pc = "sending"
  /\ \E pm \in ProviderIds : ts' = [ts EXCEPT !.pc = "mark", !.providerId = pm]
  /\ UNCHANGED <<now, dataVars, jobs, locks, usage, ex, sc, dc, hist>>

\* the provider call fails: the handler answers 500 and the job stays
TestSendFail ==
  /\ ts.pc = "sending"
  /\ ts' = TestIdle
  /\ UNCHANGED <<now, dataVars, jobs, locks, usage, ex, sc, dc, hist>>

\* await markJobSent(job.id, providerId); a row locked by a claim makes it wait
TestSendMarkSent ==
  /\ ts.pc = "mark"
  /\ ts.job_id \notin Locked
  /\ jobs' = markJobSent(jobs, ts.job_id, ts.providerId)
  /\ ts' = TestIdle
  /\ UNCHANGED <<now, dataVars, locks, usage, ex, sc, dc, hist>>

TestSend ==
  \/ TestSendInsert
  \/ TestSendDispatch
  \/ TestSendOk
  \/ TestSendFail
  \/ TestSendMarkSent

(***************************************************************************)
(* Direct job creation: createJobWithLimitCheck                            *)
(***************************************************************************)
\* a caller not in a call. The fields keep the last call: its arguments, the
\* quota and usage it read, its outcome (result), the row it inserted, the
\* counter value when it started (u0) and the one its increment left (after),
\* and whether no other call ran between its start and its end (alone)
DirectIdle ==
  [pc |-> "idle", tenantId |-> 0, channel |-> "", quota |-> 0, used |-> 0,
   result |-> "", job_id |-> 0, u0 |-> 0, after |-> 0, alone |-> TRUE]

TenantInputs == {1, 2}
DirectChannels == {"email", "sms"}

\* variant: the missing-tenant check is gone
TenantFound_Always(tenantId) == TRUE

\* if (!tenant) throw TENANT_NOT_FOUND, with tenant = rows[0] || null
TenantFound(tenantId) == tenantId \in DOMAIN tenants

\* tenant.active_plans || []
getTenant(tenantId) == IF tenantId \in DOMAIN tenants THEN tenants[tenantId] ELSE <<>>

\* variant: the channel's row is never found
UsedOf_NoRow(u, tenant_id, channel, t) == 0

\* usageRow?.used || 0 for the channel's row of the current month
UsedOf(u, tenant_id, channel, t) ==
  LET rows == {k \in getChannelUsage(u, tenant_id, t) : k[2] = channel} IN
  IF rows = {} THEN 0 ELSE u[CHOOSE k \in rows : TRUE].used

\* variant: used > quota
LimitExceeded_Strict(used, quota) == used > quota

\* if (used >= quota) throw LIMIT_EXCEEDED
LimitExceeded(used, quota) == used >= quota

\* the other callers learn that a call started while theirs was running
Overlapped(c) ==
  [d \in Callers |->
     IF d # c /\ dc[d].pc # "idle" THEN [dc[d] EXCEPT !.alone = FALSE] ELSE dc[d]]

StartCall(c, tenantId, channel) ==
  [DirectIdle EXCEPT !.tenantId = tenantId, !.channel = channel,
                     !.u0 = IF <<tenantId, channel, currentMonth(now)>> \in DOMAIN usage
                              THEN usage[<<tenantId, channel, currentMonth(now)>>].used
                              ELSE 0,
                     !.alone = \A d \in Callers \ {c} : dc[d].pc = "idle"]

\* getTenant finds no row: TENANT_NOT_FOUND
DirectTenantNotFound(c) ==
  /\ dc[c].pc = "idle"
  /\ \E tenantId \in TenantInputs, channel \in DirectChannels :
       /\ ~ TenantFound(tenantId)
       /\ dc' = [Overlapped(c) EXCEPT
                   ![c] = [StartCall(c, tenantId, channel)
                             EXCEPT !.result = "TENANT_NOT_FOUND"]]
  /\ UNCHANGED <<now, dataVars, jobs, locks, usage, ex, sc, ts, hist>>

\* the tenant's plans give the channel no quota: CHANNEL_NOT_ENABLED
DirectChannelNotEnabled(c) ==
  /\ dc[c].pc = "idle"
  /\ \E tenantId \in TenantInputs, channel \in DirectChannels :
       /\ TenantFound(tenantId)
       /\ getChannelQuota(getTenant(tenantId), channel) = 0
       /\ dc' = [Overlapped(c) EXCEPT
                   ![c] = [StartCall(c, tenantId, channel)
                             EXCEPT !.result = "CHANNEL_NOT_ENABLED"]]
  /\ UNCHANGED <<now, dataVars, jobs, locks, usage, ex, sc, ts, hist>>

\* the tenant exists and the channel has a quota: go on to read the usage
DirectGetTenant(c) ==
  /\ dc[c].pc = "idle"
  /\ \E tenantId \in TenantInputs, channel \in DirectChannels :
       /\ TenantFound(tenantId)
       /\ getChannelQuota(getTenant(tenantId), channel) # 0
       /\ dc' = [Overlapped(c) EXCEPT
                   ![c] = [StartCall(c, tenantId, channel)
                             EXCEPT !.pc = "usage",
                                    !.quota = getChannelQuota(getTenant(tenantId),
                                                              channel)]]
  /\ UNCHANGED <<now, dataVars, jobs, locks, usage, ex, sc, ts, hist>>

\* await getChannelUsage(tenantId): used >= quota, LIMIT_EXCEEDED
DirectLimitExceeded(c) ==
  /\ dc[c].pc = "usage"
  /\ LET used == UsedOf(usage, dc[c].tenantId, dc[c].channel, now) IN
       /\ LimitExceeded(used, dc[c].quota)
       /\ dc' = [dc EXCEPT ![c].pc = "idle", ![c].used = used,
                           ![c].result = "LIMIT_EXCEEDED"]
  /\ UNCHANGED <<now, dataVars, jobs, locks, usage, ex, sc, ts, hist>>

\* await getChannelUsage(tenantId): used < quota, go on to insert
DirectCheckPassed(c) ==
  /\ dc[c].pc = "usage"
  /\ LET used == UsedOf(usage, dc[c].tenantId, dc[c].channel, now) IN
       /\ ~ LimitExceeded(used, dc[c].quota)
       /\ dc' = [dc EXCEPT ![c].pc = "insert", ![c].used = used]
  /\ UNCHANGED <<now, dataVars, jobs, locks, usage, ex, sc, ts, hist>>

\* INSERT INTO jobs (...) VALUES (..., 'sent') RETURNING id
DirectInsert(c) ==
  /\ dc[c].pc = "insert"
  /\ Len(jobs) < MaxJobs
  /\ jobs' = Append(jobs, NewJobRow(dc[c].tenantId, 0, 0, dc[c].channel,
                                    "r@x.io", NullTime, "sent"))
  /\ hist' = Append(hist, NewHist(0))
  /\ dc' = [dc EXCEPT ![c].pc = "incr", ![c].job_id = Len(jobs) + 1]
  /\ UNCHANGED <<now, dataVars, locks, usage, ex, sc, ts>>

\* await incrementChannelUsage(tenantId, channel, quota); return { job_id }
DirectIncrement(c) ==
  /\ dc[c].pc = "incr"
  /\ usage' = incrementChannelUsage(usage, dc[c].tenantId, dc[c].channel,
                                    dc[c].quota, now)
  /\ LET after == usage'[<<dc[c].tenantId, dc[c].channel, currentMonth(now)>>].used
     IN /\ dc' = [dc EXCEPT ![c].pc = "idle", ![c].result = "ok",
                            ![c].after = after]
        /\ hist' = [hist EXCEPT ![dc[c].job_id].over =
                      IF after <= dc[c].quota THEN "no"
                      ELSE IF dc[c].alone THEN "alone" ELSE "raced"]
  /\ UNCHANGED <<now, dataVars, jobs, locks, ex, sc, ts>>

Direct(c) ==
  \/ DirectTenantNotFound(c)
  \/ DirectChannelNotEnabled(c)
  \/ DirectGetTenant(c)
  \/ DirectLimitExceeded(c)
  \/ DirectCheckPassed(c)
  \/ DirectInsert(c)
  \/ DirectIncrement(c)

(***************************************************************************)
(* Time                                                                    *)
(***************************************************************************)
\* the instants after t at which a pending row becomes due
DueTimes(js, t) ==
  {js[j].scheduled_at : j \in {i \in DOMAIN js : /\ js[i].status = "pending"
                                                /\ js[i].scheduled_at > t}}

\* the clock moves on to the next instant at which a pending row becomes due,
\* up to h minutes past StartNow
TickWithin(h) ==
  /\ DueTimes(jobs, now) # {}
  /\ LET next == CHOOSE t \in DueTimes(jobs, now) :
                    \A u \in DueTimes(jobs, now) : t <= u
     IN /\ next <= StartNow + h
        /\ now' = next
  /\ UNCHANGED <<dataVars, jobs, locks, usage, ex, sc, ts, dc, hist>>

Tick == TickWithin(Horizon)

TickRetry == TickWithin(RetryHorizon)

(***************************************************************************)
(* Specifications                                                          *)
(***************************************************************************)
InitData ==
  /\ tz \in TZOffsets
  /\ providerEnv \in EnvChoices
  /\ tenants \in [{1} -> PlanChoices]
  /\ \E d \in DataChoices : customers = d.customers /\ rules = d.rules

InitProcs ==
  /\ now = StartNow
  /\ locks = [e \in Executors |-> {}]
  /\ ex = [e \in Executors |-> ExecIdle]
  /\ sc = [s \in Schedulers |-> SchedIdle(FALSE)]
  /\ ts = TestIdle
  /\ dc = [c \in Callers |-> DirectIdle]

\* the iterations of one complete Scheduler run that insert a row, in order
RECURSIVE Inserted(_, _)
Inserted(items, acc) ==
  IF items = <<>> THEN acc
  ELSE LET it == Head(items) IN
       IF /\ hasContact(it.channel, it)
          /\ ~ \E i \in DOMAIN acc :
                 /\ acc[i].customer_id = it.customer_id
                 /\ acc[i].rule_id = it.rule_id
                 /\ acc[i].channel = it.channel
                 /\ acc[i].scheduled_at = it.scheduled_at
         THEN Inserted(Tail(items), Append(acc, it))
         ELSE Inserted(Tail(items), acc)

RECURSIVE RunItems(_)
RunItems(queue) ==
  IF queue = <<>> THEN <<>>
  ELSE WorkItems(Head(queue), rules[Head(queue)], customers, tz)
         \o RunItems(Tail(queue))

\* the empty store of a fresh database
InitEmpty ==
  /\ jobs = <<>>
  /\ hist = <<>>
  /\ usage = <<>>

\* the store one complete Scheduler run leaves on a fresh database
InitScheduled ==
  LET ins == Inserted(RunItems(Ascending(getActiveRules(rules))), <<>>) IN
  /\ jobs = [i \in DOMAIN ins |-> createJob(ins[i])]
  /\ hist = [i \in DOMAIN ins |-> NewHist(ins[i].days)]
  /\ usage = <<>>

\* Scheduler and one Executor on a fresh database
Init == InitData /\ InitProcs /\ InitEmpty

Next ==
  \/ Executor("e1")
  \/ Scheduler("s1")
  \/ Tick

Spec == Init /\ [][Next]_vars

\* two Executors draining the store a Scheduler run has filled
InitClaim == InitData /\ InitProcs /\ InitScheduled

NextClaim ==
  \/ \E e \in Executors : Executor(e)
  \/ Tick

SpecClaim == InitClaim /\ [][NextClaim]_vars

\* one Executor following jobs through all their retries
NextRetry ==
  \/ Executor("e1")
  \/ TickRetry

SpecRetry == InitClaim /\ [][NextRetry]_vars

\* one Executor and test-send requests
NextTest ==
  \/ Executor("e1")
  \/ TestSend
  \/ Tick

SpecTest == InitClaim /\ [][NextTest]_vars

\* the Scheduler alone
NextSched == Scheduler("s1")

SpecSched == Init /\ [][NextSched]_vars

\* direct job creation by two concurrent callers; the month's counters start
\* absent, or one short of the quota, or at the quota
DirectPlanChoices == {<<>>, <<"sms_starter">>, <<"combo_all">>}

UsageChoices(plans) ==
  {<<>>} \cup
  { [k \in {<<1, ch, currentMonth(StartNow)>>} |->
       [used |-> getChannelQuota(plans, ch) - d,
        quota |-> getChannelQuota(plans, ch)]] :
    ch \in {c \in DirectChannels : getChannelQuota(plans, c) > 0}, d \in {0, 1} }

InitDirect ==
  /\ tz = 0
  /\ providerEnv = Channels
  /\ tenants \in [{1} -> DirectPlanChoices]
  /\ customers = <<>>
  /\ rules = <<>>
  /\ InitProcs
  /\ jobs = <<>>
  /\ hist = <<>>
  /\ usage \in UsageChoices(tenants[1])

NextDirect == \E c \in Callers : Direct(c)

SpecDirect == InitDirect /\ [][NextDirect]_vars

(***************************************************************************)
(* Properties                                                              *)
(***************************************************************************)

\* C1: the rows held by any two executors (locked by an open claim, or claimed
\* and not yet processed) are disjoint: no row is moved from pending to queued
\* by more than one claim.
C1_ClaimsDisjoint ==
  \A e1, e2 \in Executors : e1 # e2 => Held(e1) \cap Held(e2) = {}

\* two claim transactions are open at once, each holding rows
C1_Witness ==
  \E e1, e2 \in Executors : e1 # e2 /\ locks[e1] # {} /\ locks[e2] # {}

\* what the claim of an executor found: it ran beside open claims, and the
\* pending rows due at that moment were at most the batch limit
ClaimedBesidePeers(e) ==
  /\ ex[e].pc # "idle"
  /\ ex[e].peer # {}
  /\ Cardinality(ex[e].seen) <= ClaimLimit

\* the pass of an executor is through its batch
PassDone(e) == ex[e].pc = "loop" /\ ex[e].batch = <<>>

InFlight(j) ==
  {e \in Executors : ex[e].pc = "sending" /\ Head(ex[e].batch).id = j}
    \cup (IF ts.pc = "sending" /\ ts.job_id = j THEN {"test-send"} ELSE {})

\* C3: at most one dispatch is in flight for a job at any time, whether from
\* an executor or from the test-send handler.
C3_OneInFlight == \A j \in JobIds : Cardinality(InFlight(j)) <= 1

\* rows the executors hold
HeldAny == UNION {Held(e) : e \in Executors}

\* C4 as stated, read for the jobs that were not stopped for a channel that is
\* not entitled: a job is permanent_failed if and only if it has failed
\* dispatch exactly MAX_RETRIES times, and no job is retried after its
\* MAX_RETRIES-th failed dispatch.
C4_FailedAfterMaxRetries ==
  \A j \in JobIds :
    hist[j].pfBy # "channel" =>
      /\ jobs[j].status = "permanent_failed" => hist[j].fails = MAX_RETRIES
      /\ (hist[j].fails >= MAX_RETRIES /\ j \notin HeldAny)
           => jobs[j].status = "permanent_failed"

\* C4 amended: dispatch failures make a job permanent_failed exactly at its
\* (MAX_RETRIES + 1)-th failed dispatch, never earlier, and a job is never
\* dispatched after that; the only other way to permanent_failed is a channel
\* that is not entitled.
C4_FailedAfterFourFailures ==
  \A j \in JobIds :
    /\ hist[j].fails <= MAX_RETRIES + 1
    /\ jobs[j].status = "permanent_failed"
         => \/ hist[j].pfBy = "retries" /\ hist[j].fails = MAX_RETRIES + 1
            \/ hist[j].pfBy = "channel"
    /\ (hist[j].fails = MAX_RETRIES + 1 /\ j \notin HeldAny)
         => jobs[j].status = "permanent_failed" /\ hist[j].pfBy = "retries"
    /\ (hist[j].fails <= MAX_RETRIES /\ hist[j].pfBy # "channel")
         => jobs[j].status # "permanent_failed"

\* a job was retried three times and failed for good on its fourth dispatch
C4_Witness ==
  \E j \in JobIds :
    /\ jobs[j].status = "permanent_failed"
    /\ hist[j].pfBy = "retries"
    /\ hist[j].fails = MAX_RETRIES + 1
    /\ jobs[j].retry_count = MAX_RETRIES

\* C5: a step that takes a job back to pending after a failed dispatch adds
\* one to retry_count, records the failure message as last_error and sets
\* scheduled_at to now + 2^retry_count minutes for the new retry_count, which
\* is 1, 2 or 3: delays of 2, 4 and 8 minutes.
C5_RescheduleBackoff ==
  [][\A j \in DOMAIN jobs :
       (jobs[j].status # "pending" /\ jobs'[j].status = "pending")
         => /\ jobs'[j].retry_count = jobs[j].retry_count + 1
            /\ jobs'[j].retry_count \in 1 .. MAX_RETRIES
            /\ jobs'[j].scheduled_at = now + Pow2(jobs'[j].retry_count)
            /\ jobs'[j].scheduled_at - now \in {2, 4, 8}
            /\ \E e \in Executors :
                 /\ ex[e].pc = "failed"
                 /\ Head(ex[e].batch).id = j
                 /\ ex[e].err # ""
                 /\ jobs'[j].last_error = ex[e].err]_vars

\* a job rescheduled for the third time: 8 minutes ahead
C5_Witness ==
  \E j \in JobIds :
    /\ jobs[j].status = "pending"
    /\ jobs[j].retry_count = MAX_RETRIES
    /\ jobs[j].last_error # ""
    /\ jobs[j].scheduled_at > now

\* C6: a Scheduler run that follows a completed run over the same rules and
\* customers inserts no row.
C6_SecondRunInsertsNothing ==
  \A s \in Schedulers : sc[s].prior => sc[s].inserted = 0

\* the second run has gone through all its iterations over a filled store
C6_Witness ==
  \E s \in Schedulers :
    /\ sc[s].prior
    /\ sc[s].pc = "rules" /\ sc[s].queue = <<>>
    /\ Len(jobs) >= 2

\* C7: no two rows stand for the same reminder, that is the same tenant,
\* customer, rule, channel and lead-day offset.
C7_OneJobPerReminder ==
  \A i, j \in JobIds :
    (i # j /\ jobs[i].customer_id # 0 /\ jobs[i].rule_id # 0)
      => ~ /\ jobs[i].tenant_id = jobs[j].tenant_id
           /\ jobs[i].customer_id = jobs[j].customer_id
           /\ jobs[i].rule_id = jobs[j].rule_id
           /\ jobs[i].channel = jobs[j].channel
           /\ hist[i].lead = hist[j].lead

Rejections == {"TENANT_NOT_FOUND", "CHANNEL_NOT_ENABLED", "LIMIT_EXCEEDED"}

\* C8: a direct job creation that ran with no other call in between, for a
\* tenant with quota Q > 0 and usage U at its start: it succeeded only if
\* U < Q, then leaving one row with status sent and the counter at U + 1, and
\* it was rejected with LIMIT_EXCEEDED only if U >= Q; with U < Q it is not
\* rejected, with U >= Q it does not go on to insert.
C8_SequentialQuota ==
  \A c \in Callers :
    dc[c].alone =>
      /\ (dc[c].pc = "idle" /\ dc[c].result = "ok")
           => /\ dc[c].quota > 0
              /\ dc[c].u0 < dc[c].quota
              /\ dc[c].after = dc[c].u0 + 1
              /\ dc[c].job_id \in JobIds
              /\ jobs[dc[c].job_id].status = "sent"
              /\ jobs[dc[c].job_id].channel = dc[c].channel
      /\ (dc[c].pc = "idle" /\ dc[c].result = "LIMIT_EXCEEDED")
           => dc[c].quota > 0 /\ dc[c].u0 >= dc[c].quota /\ dc[c].job_id = 0
      /\ dc[c].pc \in {"insert", "incr"} => dc[c].u0 < dc[c].quota

\* one call succeeded on the last unit of quota, the next one was rejected
C8_Witness ==
  \E c1, c2 \in Callers :
    /\ dc[c1].pc = "idle" /\ dc[c1].alone /\ dc[c1].result = "ok"
    /\ dc[c1].after = dc[c1].quota
    /\ dc[c2].pc = "idle" /\ dc[c2].alone /\ dc[c2].result = "LIMIT_EXCEEDED"
    /\ dc[c2].u0 = dc[c2].quota

\* C9: an increment of the direct path takes a counter above the quota only
\* when its call overlapped another call (both passed the check before either
\* incremented); a call that ran alone never does.  The witness is the state
\* the claim says is reachable: used > quota.
C9_ExceedsOnlyByRace ==
  \A j \in JobIds : hist[j].over # "alone"

\* used > quota after two overlapping calls
C9_Witness ==
  \E k \in DOMAIN usage :
    /\ usage[k].used > usage[k].quota
    /\ \E j \in JobIds : hist[j].over = "raced"

\* C10: a call rejects with TENANT_NOT_FOUND exactly when the tenant is
\* missing, otherwise with CHANNEL_NOT_ENABLED exactly when the resolved quota
\* is 0, otherwise with LIMIT_EXCEEDED exactly when used >= quota; a rejecting
\* step inserts no row and changes no counter, and the call has inserted none.
C10_Rejections ==
  [][\A c \in Callers :
       LET d == dc'[c]
           exists == d.tenantId \in DOMAIN tenants
           quota  == getChannelQuota(getTenant(d.tenantId), d.channel)
           used   == IF <<d.tenantId, d.channel, currentMonth(now)>> \in DOMAIN usage
                       THEN usage[<<d.tenantId, d.channel, currentMonth(now)>>].used
                       ELSE 0
       IN
       /\ (d # dc[c] /\ d.pc = "idle" /\ d.result \in Rejections)
            => /\ jobs' = jobs
               /\ usage' = usage
               /\ d.job_id = 0
               /\ d.result = "TENANT_NOT_FOUND" <=> ~ exists
               /\ d.result = "CHANNEL_NOT_ENABLED" <=> (exists /\ quota = 0)
               /\ d.result = "LIMIT_EXCEEDED"
                    <=> (exists /\ quota # 0 /\ used >= quota)
       /\ (dc[c].pc = "idle" /\ d.pc = "usage") => (exists /\ quota # 0)
       /\ (dc[c].pc = "usage" /\ d.pc = "insert") => used < quota]_vars

\* two of the rejections side by side, the store still empty
C10_Witness ==
  \E c1, c2 \in Callers :
    /\ dc[c1].pc = "idle" /\ dc[c1].result = "LIMIT_EXCEEDED"
    /\ dc[c2].pc = "idle" /\ dc[c2].result \in {"TENANT_NOT_FOUND",
                                                "CHANNEL_NOT_ENABLED"}
    /\ jobs = <<>>

\* one Executor whose data-store calls can fail, on a store filled by one
\* Scheduler run
NextFault ==
  \/ Executor("e1")
  \/ ExecRollback("e1")
  \/ ExecRecordFails("e1")
  \/ ExecWriteFails("e1")
  \/ Tick

SpecFault == InitClaim /\ [][NextFault]_vars

\* the Scheduler whose customers query can fail, on a fresh database
NextSchedFault == Scheduler("s1") \/ SchedLoadFails("s1")

SpecSchedFault == Init /\ [][NextSchedFault]_vars

\* the Scheduler beside one Executor within one minute, on a fresh database
NextFrame == Executor("e1") \/ Scheduler("s1")

SpecFrame == Init /\ [][NextFrame]_vars

(***************************************************************************)
(* Properties, continued                                                   *)
(***************************************************************************)
\* what one plan identifier grants for a channel, read off the catalog
Granted(planId, channel) ==
  IF planId \in DOMAIN CHANNEL_PLANS
    THEN (IF CHANNEL_PLANS[planId].channel = channel
            THEN CHANNEL_PLANS[planId].quota ELSE 0)
  ELSE IF planId \in DOMAIN COMBO_PLANS
    THEN (IF channel \in COMBO_PLANS[planId].channels
            THEN COMBO_PLANS[planId].quotas[channel] ELSE 0)
  ELSE 0

RECURSIVE GrantedSum(_, _)
GrantedSum(activePlans, channel) ==
  IF activePlans = <<>> THEN 0
  ELSE Granted(Head(activePlans), channel) + GrantedSum(Tail(activePlans), channel)

\* C11: the quota resolved for a tenant's active plans and a channel is the sum
\* of what each active plan, single-channel or bundle, grants for the channel.
C11_QuotaIsSumOfPlans ==
  \A c \in Callers :
    dc[c].pc \in {"usage", "insert", "incr"}
      => dc[c].quota = GrantedSum(tenants[dc[c].tenantId], dc[c].channel)

\* the channels the plans of a job's tenant enable
Entitled(j) == getEnabledChannels(tenants[jobs[j].tenant_id])

\* C12: when an executor comes to a claimed job whose channel the tenant's
\* plans do not enable, its step takes the job from queued to permanent_failed
\* and goes on with the batch: the dispatcher is not called, retry_count and
\* scheduled_at stay as they were, and no usage counter changes.
C12_NotEntitledFailsUnsent ==
  [][\A e \in Executors :
       (/\ ex[e].pc = "loop" /\ ex[e].batch # <<>>
        /\ Head(ex[e].batch).channel \notin Entitled(Head(ex[e].batch).id)
        /\ ex'[e] # ex[e])
         => LET j == Head(ex[e].batch).id IN
            /\ jobs[j].status = "queued"
            /\ jobs'[j].status = "permanent_failed"
            /\ jobs'[j].retry_count = jobs[j].retry_count
            /\ jobs'[j].scheduled_at = jobs[j].scheduled_at
            /\ jobs'[j].provider_msg_id = jobs[j].provider_msg_id
            /\ hist'[j].dispatches = hist[j].dispatches
            /\ hist'[j].fails = hist[j].fails
            /\ usage' = usage
            /\ ex'[e].pc = "loop"
            /\ ex'[e].batch = Tail(ex[e].batch)
            /\ j \notin ex'[e].dispatched]_vars

\* a job stopped for its channel, never dispatched, never rescheduled
C12_Witness ==
  \E j \in JobIds :
    /\ jobs[j].channel \notin Entitled(j)
    /\ jobs[j].status = "permanent_failed"
    /\ hist[j].pfBy = "channel"
    /\ hist[j].dispatches = 0
    /\ jobs[j].retry_count = 0
    /\ usage = <<>>

\* the counter of a key, 0 while the key has no row
UsedAt(u, key) == IF key \in DOMAIN u THEN u[key].used ELSE 0

\* C13: after a successful dispatch the executor marks the job sent with the
\* provider's message id and then adds exactly one to the counter of the job's
\* (tenant, channel, current month), leaving every other counter alone; the
\* executor changes a counter in no other step.
C13_UsageOnSuccess ==
  [][/\ \A e \in Executors :
          LET j   == Head(ex[e].batch).id
              key == <<jobs[j].tenant_id, jobs[j].channel, currentMonth(now)>>
          IN
          /\ (ex[e].pc = "marksent" /\ ex'[e] # ex[e])
               => /\ ex[e].providerMsgId \in ProviderIds
                  /\ jobs'[j].status = "sent"
                  /\ jobs'[j].provider_msg_id = ex[e].providerMsgId
                  /\ ex'[e].pc = "incr"
                  /\ usage' = usage
          /\ (ex[e].pc = "incr" /\ ex'[e] # ex[e])
               => /\ jobs[j].status = "sent"
                  /\ key \in DOMAIN usage'
                  /\ usage'[key].used = UsedAt(usage, key) + 1
                  /\ DOMAIN usage' = DOMAIN usage \cup {key}
                  /\ \A k \in DOMAIN usage : k # key => usage'[k] = usage[k]
     /\ usage' # usage
          => \E e \in Executors : ex[e].pc = "incr" /\ ex'[e].pc = "loop"]_vars

\* two jobs sent with the provider's id, their counter at two, beside a job
\* that failed dispatch and added nothing
C13_Witness ==
  /\ \E k \in DOMAIN usage :
       /\ usage[k].used = 2
       /\ Cardinality({j \in JobIds : /\ jobs[j].status = "sent"
                                      /\ jobs[j].provider_msg_id \in ProviderIds
                                      /\ jobs[j].tenant_id = k[1]
                                      /\ jobs[j].channel = k[2]}) = 2
  /\ \E j \in JobIds : hist[j].fails > 0 /\ jobs[j].status # "sent"

\* a Scheduler run has gone through all its rules on a store that was empty
\* when the first run began
RunComplete(s) == sc[s].pc = "idle" /\ sc[s].prior

\* the rows that stand for one reminder
RowsFor(c, r, ch, d) ==
  {j \in JobIds : /\ jobs[j].customer_id = c /\ jobs[j].rule_id = r
                  /\ jobs[j].channel = ch /\ hist[j].lead = d}

Range(f) == {f[i] : i \in DOMAIN f}

\* C14: every job the Scheduler has created is for a channel of its rule that
\* the tenant's active plans enable.
C14_SchedulerOnlyEntitled ==
  \A j \in JobIds :
    jobs[j].rule_id # 0
      => /\ jobs[j].channel \in Range(rules[jobs[j].rule_id].channels)
         /\ jobs[j].channel \in Entitled(j)

\* the field a channel's recipient is read from
RecipientOf(channel, customer) ==
  IF channel = "email" THEN customer.email
  ELSE IF channel \in {"sms", "whatsapp"} THEN customer.phone
  ELSE ""

\* C15: when a Scheduler run is complete, for every customer with an expiry
\* date, every lead day and every channel of an active rule there is a job
\* exactly when the recipient field of the channel is non-empty, email read
\* from customer.email, sms and whatsapp from customer.phone.
C15_JobIffRecipient ==
  \A s \in Schedulers :
    RunComplete(s) =>
      \A r \in getActiveRules(rules), c \in DOMAIN customers :
        (customers[c].tenant_id = rules[r].tenant_id
           /\ customers[c].expiry_date # NullTime)
          => \A d \in Range(rules[r].lead_days), ch \in Range(rules[r].channels) :
               RowsFor(c, r, ch, d) # {} <=> RecipientOf(ch, customers[c]) # ""

\* the data of C16: every channel of every active rule is enabled by the
\* tenant's plans and every customer has the contact of each channel
AllEntitledWithContacts ==
  \A r \in getActiveRules(rules) :
    /\ Range(rules[r].channels) \subseteq getEnabledChannels(tenants[rules[r].tenant_id])
    /\ \A c \in DOMAIN customers, ch \in Range(rules[r].channels) :
         customers[c].tenant_id = rules[r].tenant_id
           => RecipientOf(ch, customers[c]) # ""

\* C16: on such data one complete run on an empty store leaves exactly one job
\* per customer, lead day and channel of each rule, each pending and scheduled
\* at the expiry date minus the lead days, at the fixed hour (midnight UTC).
C16_OneJobPerLeadDayAndChannel ==
  \A s \in Schedulers :
    (RunComplete(s) /\ AllEntitledWithContacts) =>
      /\ \A r \in getActiveRules(rules), c \in DOMAIN customers :
           \A d \in Range(rules[r].lead_days), ch \in Range(rules[r].channels) :
             /\ Cardinality(RowsFor(c, r, ch, d)) = 1
             /\ \A j \in RowsFor(c, r, ch, d) :
                  /\ jobs[j].status = "pending"
                  /\ jobs[j].scheduled_at =
                       (customers[c].expiry_date - d) * MinutesPerDay
      /\ \A j \in JobIds : jobs[j].rule_id \in getActiveRules(rules)

\* C17: a step of a Scheduler run at most appends one row, with status
\* pending and nothing yet attempted; it leaves every existing row as it was,
\* calls no dispatch and changes no usage counter.
C17_SchedulerOnlyInserts ==
  [][\A s \in Schedulers :
       sc'[s] # sc[s]
         => /\ usage' = usage
            /\ ex' = ex /\ ts' = ts /\ locks' = locks
            /\ Len(jobs') \in {Len(jobs), Len(jobs) + 1}
            /\ \A j \in DOMAIN jobs : jobs'[j] = jobs[j] /\ hist'[j] = hist[j]
            /\ Len(jobs') = Len(jobs) + 1
                 => LET n == Len(jobs') IN
                    /\ jobs'[n].status = "pending"
                    /\ jobs'[n].retry_count = 0
                    /\ jobs'[n].attempts = 0
                    /\ jobs'[n].provider_msg_id = ""
                    /\ hist'[n].dispatches = 0]_vars

\* a run has inserted a row while the store held a job already sent and
\* counted
C17_Witness ==
  \E s \in Schedulers :
    /\ sc[s].pc # "idle" /\ sc[s].inserted > 0
    /\ \E j \in JobIds :
         /\ jobs[j].status = "sent"
         /\ j < Len(jobs)
         /\ jobs[Len(jobs)].status = "pending"
    /\ usage # <<>>

\* C18: when the claim transaction fails after its UPDATE, the step that ends
\* the pass leaves the store as it was: every row the claim had selected is
\* pending, unlocked and due, so eligible for the next claim; no row is
\* queued by it and the pass dispatches nothing.
C18_FailedClaimRollsBack ==
  [][\A e \in Executors :
       (ex[e].pc = "claimed" /\ ex'[e].pc = "idle")
         => /\ jobs' = jobs /\ hist' = hist /\ usage' = usage
            /\ locks'[e] = {}
            /\ ex'[e].batch = <<>> /\ ex'[e].dispatched = {}
            /\ \A j \in locks[e] :
                 /\ jobs'[j].status = "pending"
                 /\ j \in DuePending(jobs', now)
                 /\ j \notin UNION {locks'[o] : o \in Executors}]_vars

\* the claim after a failed one has selected the same rows again
C18_Witness ==
  \E e \in Executors :
    /\ ex[e].pc = "claimed"
    /\ ex[e].aborted # {}
    /\ ex[e].aborted \subseteq locks[e]
    /\ \A j \in ex[e].aborted : jobs[j].status = "pending" /\ hist[j].dispatches = 0

\* C19: a pass over a claimed batch does not end while jobs of the batch other
\* than the one it is working on are unprocessed, whatever fails for that job.
C19_FailureIsolated ==
  [][\A e \in Executors :
       (ex[e].pc \in {"loop", "sending", "marksent", "incr", "failed"}
          /\ ex'[e].pc = "idle")
         => \/ ex[e].batch = <<>>
            \/ Tail(ex[e].batch) = <<>>]_vars

\* C20: a Scheduler run does not end while active rules other than the one it
\* is working on are unvisited, whatever fails for that rule.
C20_RuleFailureIsolated ==
  [][\A s \in Schedulers :
       (sc[s].pc # "idle" /\ sc'[s].pc = "idle")
         => IF sc[s].pc = "rules" /\ sc[s].queue # <<>>
              THEN Tail(sc[s].queue) = <<>>
              ELSE sc[s].queue = <<>>]_vars

\* the two ways runJobExecutor returns: after the loop over its batch, or from
\* the catch block of the claim transaction
ReturnsNormally(e) ==
  \/ ex[e].pc = "loop" /\ ex[e].batch = <<>>
  \/ ex[e].pc = "claimed"

\* C21: an Executor pass ends only by returning: no failure inside it leaves
\* runJobExecutor as an error of the timer-driven call.
C21_NoFailureEscapes ==
  [][\A e \in Executors :
       (ex[e].pc # "idle" /\ ex'[e].pc = "idle") => ReturnsNormally(e)]_vars

\* C22: a claim selects at most the batch limit of rows, each pending and due
\* when selected; a row becomes queued only from pending, due, through the
\* claim that selected it; and a job is handed to the dispatcher only while
\* queued and past its scheduled_at, so never before its backoff has elapsed.
C22_ClaimGuard ==
  [][/\ \A e \in Executors :
          (locks'[e] # locks[e] /\ locks'[e] # {})
            => /\ Cardinality(locks'[e]) <= ClaimLimit
               /\ \A j \in locks'[e] :
                    /\ jobs[j].status = "pending"
                    /\ jobs[j].scheduled_at # NullTime
                    /\ jobs[j].scheduled_at <= now
     /\ \A j \in DOMAIN jobs :
          /\ (jobs[j].status # "queued" /\ jobs'[j].status = "queued")
               => /\ jobs[j].status = "pending"
                  /\ jobs[j].scheduled_at <= now
                  /\ \E e \in Executors : j \in locks[e]
          /\ hist'[j].dispatches > hist[j].dispatches
               => /\ jobs[j].status = "queued"
                  /\ jobs[j].scheduled_at <= now]_vars

\* a claim has taken the batch limit and left a due row behind, in a store
\* where a rescheduled job has been dispatched again after its delay
C22_Witness ==
  /\ \E e \in Executors :
       /\ ex[e].pc = "claimed"
       /\ Cardinality(locks[e]) = ClaimLimit
       /\ \E j \in DuePending(jobs, now) : j \notin locks[e]
  /\ \E j \in JobIds : jobs[j].retry_count > 0 /\ hist[j].dispatches >= 2

\* C23: within a claimed batch the jobs are processed in ascending order of
\* scheduled_at, so the rows still to be processed are always in that order.
C23_BatchAscending ==
  \A e \in Executors :
    \A a, b \in DOMAIN ex[e].batch :
      a < b => ex[e].batch[a].scheduled_at <= ex[e].batch[b].scheduled_at

\* C25: when the catch block runs for a claimed job whose retry_count is
\* already MAX_RETRIES, the job becomes permanent_failed with the failure
\* message as last_error, and its scheduled_at and retry_count stay as they
\* were.
C25_FinalFailure ==
  [][\A e \in Executors :
       (/\ ex[e].pc = "failed"
        /\ ex'[e].pc # "failed"
        /\ jobs[Head(ex[e].batch).id].retry_count = MAX_RETRIES)
         => LET j == Head(ex[e].batch).id IN
              /\ jobs[j].status = "queued"
              /\ jobs'[j].status = "permanent_failed"
              /\ ex[e].err # ""
              /\ jobs'[j].last_error = ex[e].err
              /\ jobs'[j].scheduled_at = jobs[j].scheduled_at
              /\ jobs'[j].retry_count = MAX_RETRIES]_vars

\* the catch block has just handled the failed dispatch of a job that had
\* used all its retries
C25_Witness ==
  \E j \in JobIds :
    /\ hist[j].pfBy = "retries"
    /\ jobs[j].status = "permanent_failed"
    /\ jobs[j].retry_count = MAX_RETRIES
    /\ jobs[j].attempts = MAX_RETRIES + 1
    /\ jobs[j].last_error \in ProviderErrors
    /\ jobs[j].scheduled_at <= now

\* an Executor is in the catch block for job j: the dispatch has failed and
\* the outcome is not yet written
AwaitingCatch(j) ==
  \E e \in Executors :
    ex[e].pc = "failed" /\ ex[e].batch # <<>> /\ Head(ex[e].batch).id = j

\* C27: retry_count is always within 0 .. MAX_RETRIES and equals the number
\* of failed dispatches of the job that were answered by a reschedule (every
\* failed dispatch up to the MAX_RETRIES-th is); it never decreases, and it
\* changes only by one, in the step that reschedules the job.
C27_RetryCount ==
  /\ [](\A j \in JobIds :
          /\ jobs[j].retry_count \in 0 .. MAX_RETRIES
          /\ jobs[j].retry_count =
               Min(IF AwaitingCatch(j) THEN hist[j].fails - 1 ELSE hist[j].fails,
                   MAX_RETRIES))
  /\ [][\A j \in DOMAIN jobs :
          /\ jobs'[j].retry_count >= jobs[j].retry_count
          /\ jobs'[j].retry_count # jobs[j].retry_count
               => /\ jobs'[j].retry_count = jobs[j].retry_count + 1
                  /\ AwaitingCatch(j)
                  /\ jobs'[j].status = "pending"]_vars

\* a job has been rescheduled after each of two failed dispatches and is
\* claimed again
C27_Witness ==
  \E j \in JobIds :
    /\ jobs[j].retry_count = 2
    /\ hist[j].fails = 2
    /\ jobs[j].status = "queued"

\* C28: a job's attempts field equals the number of dispatch attempts the
\* Executor has made for it, successful or failed, once the outcome of each
\* attempt is written (the job is in no Executor's hands), and no step
\* decreases it.
C28_AttemptsCountDispatches ==
  /\ [](\A j \in JobIds :
          j \notin HeldAny => jobs[j].attempts = hist[j].dispatches)
  /\ [][\A j \in DOMAIN jobs : jobs'[j].attempts >= jobs[j].attempts]_vars

\* the status changes of the job lifecycle: claim, successful dispatch,
\* reschedule after a failure, final failure
Lifecycle ==
  { <<"pending", "queued">>, <<"queued", "sent">>, <<"queued", "pending">>,
    <<"queued", "permanent_failed">> }

\* C29: every status is one of pending, queued, sent, permanent_failed; a
\* status changes only along pending -> queued, queued -> sent,
\* queued -> pending and queued -> permanent_failed; a row is created pending
\* by a Scheduler step or sent by the direct path; and a row the direct path
\* created as sent is never changed afterwards.
C29_StatusLifecycle ==
  [][/\ \A j \in DOMAIN jobs' :
          jobs'[j].status \in {"pending", "queued", "sent", "permanent_failed"}
     /\ \A j \in DOMAIN jobs :
          /\ jobs'[j].status # jobs[j].status
               => <<jobs[j].status, jobs'[j].status>> \in Lifecycle
          /\ (jobs[j].customer_id = 0 /\ jobs[j].rule_id = 0)
               => jobs'[j] = jobs[j]
     /\ \A j \in DOMAIN jobs' \ DOMAIN jobs :
          \/ jobs'[j].status = "pending" /\ sc' # sc
          \/ jobs'[j].status = "sent" /\ dc' # dc]_vars

\* the Executor beside direct job creations, with every provider configured,
\* on the store a Scheduler run has filled and with counters that earlier
\* sends of the month have left
InitUsage ==
  LET ins == Inserted(RunItems(Ascending(getActiveRules(rules))), <<>>) IN
  /\ tz = 0
  /\ providerEnv = Channels
  /\ tenants \in [{1} -> PlanChoices]
  /\ \E d \in DataChoices : customers = d.customers /\ rules = d.rules
  /\ InitProcs
  /\ jobs = [i \in DOMAIN ins |-> createJob(ins[i])]
  /\ hist = [i \in DOMAIN ins |-> NewHist(ins[i].days)]
  /\ usage \in UsageChoices(tenants[1])

NextUsage ==
  \/ Executor("e1")
  \/ Direct("d1")
  \/ Tick

SpecUsage == InitUsage /\ [][NextUsage]_vars

\* a sent row whose increment is still to come: its Executor or its direct
\* call is between the write of the row and incrementChannelUsage
AwaitingIncrement(exs, dcs, j) ==
  \/ \E e \in Executors :
       exs[e].pc = "incr" /\ exs[e].batch # <<>> /\ Head(exs[e].batch).id = j
  \/ \E c \in Callers : dcs[c].pc = "incr" /\ dcs[c].job_id = j

\* the jobs of a tenant and channel that count as consumption: marked sent by
\* the Executor after a dispatch, or created sent by the direct path, with
\* the increment done
Consumed(js, hs, exs, dcs, tenant_id, channel) ==
  {j \in DOMAIN js :
     /\ js[j].tenant_id = tenant_id
     /\ js[j].channel = channel
     /\ js[j].status = "sent"
     /\ \/ js[j].customer_id = 0 /\ js[j].rule_id = 0
        \/ hs[j].dispatches > 0
     /\ ~ AwaitingIncrement(exs, dcs, j)}

\* C30: no counter update is lost: in every step the used counter of each
\* (tenant, channel, month) grows by exactly the number of jobs of that key
\* that the step adds to those the Executor marked sent or the direct path
\* created, so counter and number stay equal from any state where they agree;
\* the counter of another month does not move.
C30_NoLostUpdate ==
  [][\A k \in DOMAIN usage' :
       /\ DOMAIN usage \subseteq DOMAIN usage'
       /\ UsedAt(usage', k) - UsedAt(usage, k) =
            IF k[3] = currentMonth(now)
              THEN Cardinality(Consumed(jobs', hist', ex', dc', k[1], k[2]))
                     - Cardinality(Consumed(jobs, hist, ex, dc, k[1], k[2]))
              ELSE 0]_vars

\* one counter has taken the increment of a job the Executor sent and that of
\* a job a direct call created while the Executor was at work
C30_Witness ==
  \E k \in DOMAIN usage :
    LET done == Consumed(jobs, hist, ex, dc, k[1], k[2]) IN
    /\ \E j \in done : hist[j].dispatches > 0
    /\ \E j \in done : jobs[j].customer_id = 0 /\ jobs[j].rule_id = 0
    /\ ex["e1"].pc # "idle"

\* the store after k failed dispatches of row job_id, the first at instant t,
\* each answered by a reschedule and retried as soon as it was due again
RECURSIVE Retried(_, _, _, _)
Retried(js, job_id, k, t) ==
  IF k = 0 THEN js
  ELSE LET before == Retried(js, job_id, k - 1, t) IN
       rescheduleJob(before, job_id, delayMinutes(before[job_id].retry_count),
                     "provider error",
                     IF k = 1 THEN t ELSE before[job_id].scheduled_at)

\* the instant of a first dispatch whose retries, each made as soon as it is
\* due, bring the job to its last attempt at StartNow
FirstAttempt == StartNow - (Pow2(MAX_RETRIES + 1) - 2)

\* Scheduler, Executor and direct job creation at one instant, on the store a
\* Scheduler run has filled, whose first job is either fresh or has used all
\* its retries and is due for its last attempt
InitTerminal ==
  LET ins   == Inserted(RunItems(Ascending(getActiveRules(rules))), <<>>)
      fresh == [i \in DOMAIN ins |-> createJob(ins[i])]
  IN
  /\ tz = 0
  /\ providerEnv = Channels
  /\ tenants \in [{1} -> PlanChoices]
  /\ \E d \in DataChoices : customers = d.customers /\ rules = d.rules
  /\ InitProcs
  /\ \E k \in {0, MAX_RETRIES} :
       /\ k > 0 => /\ fresh[1].channel \in getEnabledChannels(tenants[1])
                   /\ fresh[1].scheduled_at <= FirstAttempt
       /\ jobs = Retried(fresh, 1, k, FirstAttempt)
       /\ hist = [i \in DOMAIN ins |->
                    IF i = 1
                      THEN [NewHist(ins[i].days) EXCEPT !.fails = k,
                                                        !.dispatches = k]
                      ELSE NewHist(ins[i].days)]
  /\ usage \in UsageChoices(tenants[1])

NextTerminal ==
  \/ Executor("e1")
  \/ Scheduler("s1")
  \/ Direct("d1")

SpecTerminal == InitTerminal /\ [][NextTerminal]_vars

\* C24: permanent_failed is terminal: no step of a Scheduler run, an Executor
\* pass or a direct job creation changes any field of a row that is
\* permanent_failed, and no dispatch of it is started.
C24_FailedIsTerminal ==
  [][\A j \in DOMAIN jobs :
       jobs[j].status = "permanent_failed"
         => /\ jobs'[j].status = "permanent_failed"
            /\ jobs'[j].scheduled_at = jobs[j].scheduled_at
            /\ jobs'[j].retry_count = jobs[j].retry_count
            /\ jobs'[j].attempts = jobs[j].attempts
            /\ hist'[j].dispatches = hist[j].dispatches
            /\ \A e \in Executors : j \notin locks'[e]]_vars

\* a job has failed for good after its retries and is still past its
\* scheduled_at; a later Executor pass has claimed nothing, while a Scheduler
\* run is under way and a direct creation has inserted its row
C24_Witness ==
  \E j \in JobIds :
    /\ jobs[j].status = "permanent_failed"
    /\ hist[j].pfBy = "retries"
    /\ jobs[j].scheduled_at <= now
    /\ ex["e1"].pc = "loop"
    /\ ex["e1"].claimed = {}
    /\ sc["s1"].pc # "idle"
    /\ dc["d1"].pc = "incr"

\* two Scheduler runs at once beside an Executor pass, at one instant, on a
\* fresh database, with every provider configured
InitRace ==
  /\ tz = 0
  /\ providerEnv = Channels
  /\ tenants \in [{1} -> PlanChoices]
  /\ \E d \in DataChoices : customers = d.customers /\ rules = d.rules
  /\ InitProcs
  /\ InitEmpty

NextRace ==
  \/ \E s \in Schedulers : Scheduler(s)
  \/ Executor("e1")

SpecRace == InitRace /\ [][NextRace]_vars

\* the key of jobs_unique_idx for a row, scheduled_at with its microseconds
IndexKey(row) ==
  <<row.tenant_id, row.customer_id, row.rule_id, row.channel,
    row.scheduled_at, row.scheduled_us>>

\* C26: no two rows that both have a customer and a rule share the same
\* (tenant, customer, rule, channel, scheduled_at), whatever the interleaving
\* of two Scheduler runs and an Executor pass.
C26_UniqueTuple ==
  \A i, j \in JobIds :
    (/\ i # j
     /\ jobs[i].customer_id # 0 /\ jobs[i].rule_id # 0
     /\ jobs[j].customer_id # 0 /\ jobs[j].rule_id # 0)
      => IndexKey(jobs[i]) # IndexKey(jobs[j])

\* both Scheduler runs found the same job missing; one has inserted it and the
\* INSERT of the other is about to be rejected by the index, while a row the
\* Executor rescheduled is in the store
C26_Witness ==
  /\ \E s \in Schedulers :
       /\ sc[s].pc = "create"
       /\ UniqueViolation(jobs, createJob(Head(sc[s].work)))
  /\ \E j \in JobIds : jobs[j].retry_count > 0

\* the calendar month ends: the clock is at the first instant of the next
TickMonth ==
  /\ currentMonth(now) < currentMonth(StartNow) + MonthsAhead
  /\ now' = (currentMonth(now) + 1) * 30 * MinutesPerDay
  /\ UNCHANGED <<dataVars, jobs, locks, usage, ex, sc, ts, dc, hist>>

\* direct job creations across the end of a month
NextMonth ==
  \/ Direct("d1")
  \/ TickMonth

SpecMonth == InitDirect /\ [][NextMonth]_vars

\* C31: counters are keyed by (tenant, channel, month): a step that changes
\* the counters changes exactly one, that of the current month; if the key is
\* new its counter is created at 1, otherwise it grows by one; every other
\* counter, those of earlier months included, stays as it was, and no
\* counter is ever removed, lowered or zeroed.
C31_UsageKeyedByMonth ==
  [][/\ DOMAIN usage \subseteq DOMAIN usage'
     /\ \A k \in DOMAIN usage : usage'[k].used >= usage[k].used
     /\ \A k \in DOMAIN usage' : usage'[k].used >= 1
     /\ usage' # usage
          => \E k \in DOMAIN usage' :
               /\ k[3] = now \div (30 * MinutesPerDay)
               /\ usage'[k].used = UsedAt(usage, k) + 1
               /\ DOMAIN usage' = DOMAIN usage \cup {k}
               /\ \A o \in DOMAIN usage : o # k => usage'[o] = usage[o]]_vars

\* a tenant and channel with a counter left from the month before, and the
\* counter of the new month created at 1 by its first increment
C31_Witness ==
  \E k1, k2 \in DOMAIN usage :
    /\ k1[1] = k2[1] /\ k1[2] = k2[2]
    /\ k1[3] < k2[3]
    /\ usage[k1].used > 1
    /\ usage[k2].used = 1
    /\ k2[3] = currentMonth(now)

\* test-send requests whose dispatch failed, as <<customer, channel>>: for a
\* customer without a phone, for a channel no provider serves, and for a
\* channel whose provider is not configured or, with every provider
\* configured, whose provider call failed
FailedTestSends(env) ==
  << <<2, "sms">>, <<1, "push">>, <<1, IF "sms" \in env THEN "email" ELSE "sms">> >>

\* the Executor following through their retries the jobs those requests left
\* pending, for a tenant entitled to every channel
InitKinds ==
  /\ tz = 0
  /\ providerEnv \in EnvChoices
  /\ tenants = [t \in {1} |-> <<"combo_all">>]
  /\ \E d \in DataChoices :
       Len(d.customers) = 2 /\ customers = d.customers /\ rules = d.rules
  /\ InitProcs
  /\ jobs = [i \in DOMAIN FailedTestSends(providerEnv) |->
               LET rq == FailedTestSends(providerEnv)[i] IN
               NewJobRow(customers[rq[1]].tenant_id, rq[1], 0, rq[2], "",
                         StartNow, "pending")]
  /\ hist = [i \in DOMAIN FailedTestSends(providerEnv) |-> NewHist(0)]
  /\ usage = <<>>

NextKinds ==
  \/ Executor("e1")
  \/ TickRetry

SpecKinds == InitKinds /\ [][NextKinds]_vars

\* the catch block of an Executor runs in this step
CatchRuns(e) == ex[e].pc = "failed" /\ ex'[e].pc # "failed"

\* the catch block applies one policy whatever the failure: reschedule with
\* backoff while retry_count < MAX_RETRIES, permanent_failed otherwise, the
\* message recorded as last_error
UniformRetry ==
  \A e \in Executors :
    CatchRuns(e)
      => LET j == Head(ex[e].batch).id
             r == jobs[j].retry_count
         IN /\ jobs'[j].last_error = ex[e].err
            /\ IF r < MAX_RETRIES
                 THEN /\ jobs'[j].status = "pending"
                      /\ jobs'[j].retry_count = r + 1
                      /\ jobs'[j].scheduled_at = now + Pow2(r + 1)
                 ELSE /\ jobs'[j].status = "permanent_failed"
                      /\ jobs'[j].retry_count = r

\* a channel the dispatcher does not know
UnknownChannel(j) == jobs[j].channel \notin {"email", "sms", "whatsapp"}

C33_NoQuotaOnScheduledPath ==
  [][\A e \in Executors :
       LET job == Head(ex[e].batch)
           key == <<job.tenant_id, job.channel, currentMonth(now)>>
       IN
       /\ (/\ ex[e].pc = "loop" /\ ex[e].batch # <<>>
           /\ job.channel \in getEnabledChannels(job.active_plans)
           /\ ex'[e] # ex[e])
            => /\ hist'[job.id].dispatches = hist[job.id].dispatches + 1
               /\ jobs' = jobs
       /\ (ex[e].pc = "incr" /\ ex'[e] # ex[e])
            => /\ key \in DOMAIN usage'
               /\ usage'[key].used = UsedAt(usage, key) + 1]_vars

\* with no direct creation made, the Executor has sent a job of a tenant whose
\* counter was at the quota, and the counter is now above it
C33_Witness ==
  /\ \A c \in Callers : dc[c] = DirectIdle
  /\ \E k \in DOMAIN usage :
       /\ usage[k].used > usage[k].quota
       /\ usage[k].quota > 0
       /\ \E j \in Consumed(jobs, hist, ex, dc, k[1], k[2]) : hist[j].dispatches > 0

\* expiry dates an upload may carry, as day numbers
ExpiryInputs == {3, 4}

\* POST /api/upload with a row for a customer that exists: insertCustomer's
\* ON CONFLICT DO UPDATE overwrites the customer's expiry_date
UploadCustomer ==
  /\ \E c \in DOMAIN customers, d \in ExpiryInputs :
       /\ customers[c].expiry_date # d
       /\ customers' = [customers EXCEPT ![c].expiry_date = d]
  /\ UNCHANGED <<now, tz, providerEnv, tenants, rules, jobs, locks, usage, ex,
                 sc, ts, dc, hist>>

\* Scheduler runs and customer uploads on a fresh database
NextUpload ==
  \/ Scheduler("s1")
  \/ UploadCustomer

SpecUpload == Init /\ [][NextUpload]_vars

\* row j stands for a reminder the current data imply: its rule is active and
\* its scheduled_at is its customer's expiry date less one of the rule's
\* lead-day offsets
Implied(js, cs, j) ==
  /\ js[j].rule_id \in DOMAIN rules
  /\ rules[js[j].rule_id].is_active
  /\ js[j].customer_id \in DOMAIN cs
  /\ \E i \in DOMAIN rules[js[j].rule_id].lead_days :
       js[j].scheduled_at =
         ScheduledAt(cs[js[j].customer_id].expiry_date,
                     rules[js[j].rule_id].lead_days[i], tz)

\* C34: when a Scheduler run ends, every pending rule-based job stands for a
\* reminder the current rules and customers imply, also when a customer's
\* expiry date has changed since the job was created.
C34_StoreReflectsData ==
  [][\A s \in Schedulers :
       (sc[s].pc = "rules" /\ sc'[s].pc = "idle" /\ sc'[s].prior)
         => \A j \in DOMAIN jobs' :
              (jobs'[j].status = "pending" /\ jobs'[j].rule_id # 0)
                => Implied(jobs', customers', j)]_vars

\* bulkUploadJobsFromCsv: every valid row of the file starts its own
\* createJobWithLimitCheck for the uploading tenant as the stream delivers it,
\* none waiting for another; the promises are awaited together at the end.
\* A caller stands for one row.
BulkRow(c) ==
  /\ dc[c].pc = "idle" => dc[c].result = ""
  /\ \/ DirectChannelNotEnabled(c)
     \/ DirectGetTenant(c)
     \/ DirectLimitExceeded(c)
     \/ DirectCheckPassed(c)
     \/ DirectInsert(c)
     \/ DirectIncrement(c)

NextBulk == \E c \in Callers : BulkRow(c)

SpecBulk == InitDirect /\ [][NextBulk]_vars

\* Promise.all has resolved: every row of the upload has its outcome
UploadSettled == \A c \in Callers : dc[c].pc = "idle" /\ dc[c].result # ""

\* the rows of the upload for a channel that created a job
RowsCreated(channel) ==
  {c \in Callers : dc[c].channel = channel /\ dc[c].result = "ok"}

\* C35: when an upload has settled, for each channel the rows that created a
\* job number at most the quota that remained when the upload began, and the
\* used counter does not exceed the quota.
C35_BulkUploadWithinQuota ==
  UploadSettled
    => \A k \in DOMAIN usage :
         /\ usage[k].used <= usage[k].quota
         /\ \A c \in RowsCreated(k[2]) :
              Cardinality(RowsCreated(k[2])) <= usage[k].quota - dc[c].u0

\* dispatches of job j for which the dispatcher returned a provider message
\* id: those started, less those that failed and the one still in flight
Delivered(j) ==
  hist[j].dispatches - hist[j].fails
    - Cardinality({e \in Executors :
                     ex[e].pc = "sending" /\ Head(ex[e].batch).id = j})

\* C36: a job whose dispatch succeeded is never dispatched again: from the
\* moment the dispatcher has returned a provider message id the job is
\* queued until its pass has recorded it and sent from then on, never pending
\* or permanent_failed, and no second dispatch of it is started, also when
\* markJobSent or incrementChannelUsage fails after the send.
C36_NoSecondDispatch ==
  \A j \in JobIds :
    Delivered(j) >= 1
      => /\ hist[j].dispatches - hist[j].fails = 1
         /\ jobs[j].status \in {"queued", "sent"}
         /\ j \notin HeldAny => jobs[j].status = "sent"

\* C37: no job is left queued: a job is queued only while the pass that
\* claimed it is running and still holds it, so that by the end of the pass
\* every job it claimed is sent, pending or permanent_failed, also when a
\* write for an earlier job of the batch fails.
C37_NoJobLeftQueued ==
  \A j \in JobIds : jobs[j].status = "queued" => j \in HeldAny

\* the clock moves on to the next due instant once the Executor, which runs
\* every minute, has dealt with everything that is due and is between passes
TickIdle ==
  /\ ex["e1"].pc = "idle"
  /\ DuePending(jobs, now) = {}
  /\ TickRetry

NextLive ==
  \/ Executor("e1")
  \/ TickIdle

\* Executor passes keep occurring and time keeps advancing; the data store
\* fails no operation
SpecLive ==
  /\ InitClaim
  /\ [][NextLive]_vars
  /\ WF_vars(Executor("e1"))
  /\ SF_vars(TickIdle)

\* row j has reached a final status
Settled(j) == jobs[j].status \in {"sent", "permanent_failed"}

\* C38: with Executor passes recurring and time advancing, every job the
\* Scheduler created is eventually sent or permanent_failed, and no job is
\* dispatched more than MAX_RETRIES + 1 times.
C38_EveryJobSettles ==
  /\ \A j \in 1 .. MaxJobs : <>(j \in JobIds => Settled(j))
  /\ [](\A j \in JobIds : hist[j].dispatches <= MAX_RETRIES + 1)

\* every job has settled: one sent, and one permanent_failed after its
\* fourth dispatch
C38_Witness ==
  /\ JobIds # {}
  /\ \A j \in JobIds : Settled(j)
  /\ \E j \in JobIds : jobs[j].status = "sent"
  /\ \E j \in JobIds :
       /\ jobs[j].status = "permanent_failed"
       /\ hist[j].dispatches = MAX_RETRIES + 1

\* the channels the direct path lets through for a tenant: quota = 0 rejects
DirectAccepts(tenantId) ==
  {ch \in Channels : getChannelQuota(getTenant(tenantId), ch) # 0}

\* C39: for every tenant's active plans and every channel, the channel is in
\* the set getEnabledChannels returns exactly when getChannelQuota returns a
\* quota above 0, so a direct call that got past the quota = 0 rejection is
\* for a channel the Executor would accept for that tenant.
C39_LookupsAgree ==
  /\ \A t \in DOMAIN tenants :
       DirectAccepts(t) = getEnabledChannels(getTenant(t))
  /\ \A c \in Callers :
       dc[c].pc \in {"usage", "insert", "incr"}
         => dc[c].channel \in getEnabledChannels(getTenant(dc[c].tenantId))

====
